---- MODULE Spec2Model ----
(***************************************************************************)
(* Model of fiverr_scraper/scraper.py: the field cleaners, the per-card    *)
(* extraction of parse_gigs, the retrying page fetch get_page_html and the *)
(* pagination loop of main.                                                *)
(*                                                                         *)
(* Python strings are sequences of one-character strings, so "" is <<>>.   *)
(* None and a raised ValueError are the one-element sequences <<"None">>   *)
(* and <<"ValueError">>, which no Python string of the model equals.       *)
(***************************************************************************)
EXTENDS Integers, Sequences, FiniteSets, TLC

VARIABLES
    \* one call of a field cleaner and the re-cleaning of its result
    cpc, fn, raw, out, out2,
    \* the per-card body of parse_gigs on one located fragment
    kpc, card, rec, raised, warned,
    \* main: position, driver, loop variables of main and parse_gigs, the
    \* calls of the two save functions, and the history of fetch attempts,
    \* backoff sleeps and parse_gigs calls
    pc, driver, page_num, attempt_number, html_content, gig_cards, gigs_data, card_i,
    all_gigs_data, pages_actually_scraped, csv_calls, json_calls, trace, parsed

cleanVars == <<cpc, fn, raw, out, out2>>

cardVars == <<kpc, card, rec, raised, warned>>

mainVars ==
    <<pc, driver, page_num, attempt_number, html_content, gig_cards, gigs_data, card_i,
      all_gigs_data, pages_actually_scraped, csv_calls, json_calls, trace, parsed>>

vars == <<cleanVars, cardVars, mainVars>>

----------------------------------------------------------------------------
(* Bounds of the model.                                                    *)

\* longest enumerated raw text handed to a field cleaner
MaxLen == 4

----------------------------------------------------------------------------
(* Python values.                                                          *)

None == <<"None">>

ValueError == <<"ValueError">>

\* Python truthiness of an optional string: None and "" are falsy
Falsy(s) == s = None \/ s = <<>>

Digit == {"0", "1", "2", "3", "4", "5", "6", "7", "8", "9"}

DigitVal(c) ==
    CASE c = "0" -> 0 [] c = "1" -> 1 [] c = "2" -> 2 [] c = "3" -> 3
      [] c = "4" -> 4 [] c = "5" -> 5 [] c = "6" -> 6 [] c = "7" -> 7
      [] c = "8" -> 8 [] c = "9" -> 9

DigitChar(n) ==
    CASE n = 0 -> "0" [] n = 1 -> "1" [] n = 2 -> "2" [] n = 3 -> "3"
      [] n = 4 -> "4" [] n = 5 -> "5" [] n = 6 -> "6" [] n = 7 -> "7"
      [] n = 8 -> "8" [] n = 9 -> "9"

\* str(n) for a natural number n
RECURSIVE NatToStr(_)
NatToStr(n) ==
    IF n < 10 THEN <<DigitChar(n)>>
    ELSE NatToStr(n \div 10) \o <<DigitChar(n % 10)>>

RECURSIVE Pow10(_)
Pow10(k) == IF k = 0 THEN 1 ELSE 10 * Pow10(k - 1)

\* the characters of s, in order, that are in the set keep (str.replace(c, ''))
RECURSIVE Keep(_, _)
Keep(s, keep) ==
    IF s = <<>> THEN <<>>
    ELSE (IF Head(s) \in keep THEN <<Head(s)>> ELSE <<>>) \o Keep(Tail(s), keep)

Remove(s, drop) == Keep(s, {s[i] : i \in 1..Len(s)} \ drop)

LowerChar(c) ==
    CASE c = "A" -> "a" [] c = "B" -> "b" [] c = "C" -> "c" [] c = "D" -> "d"
      [] c = "E" -> "e" [] c = "F" -> "f" [] c = "G" -> "g" [] c = "H" -> "h"
      [] c = "I" -> "i" [] c = "J" -> "j" [] c = "K" -> "k" [] c = "L" -> "l"
      [] c = "M" -> "m" [] c = "N" -> "n" [] c = "O" -> "o" [] c = "P" -> "p"
      [] c = "Q" -> "q" [] c = "R" -> "r" [] c = "S" -> "s" [] c = "T" -> "t"
      [] c = "U" -> "u" [] c = "V" -> "v" [] c = "W" -> "w" [] c = "X" -> "x"
      [] c = "Y" -> "y" [] c = "Z" -> "z"
      [] OTHER -> c

\* str.lower()
Lower(s) == [i \in 1..Len(s) |-> LowerChar(s[i])]

\* re.search of a character class with +: the first maximal run of
\* characters of class in s, as <<first, last>>, or <<0, 0>> for no match
FirstRun(s, class) ==
    LET hits == {i \in 1..Len(s) : s[i] \in class}
    IN  IF hits = {} THEN <<0, 0>>
        ELSE LET first == CHOOSE i \in hits : \A j \in hits : i <= j
                 ends  == {j \in first..Len(s) : \A m \in first..j : s[m] \in class}
                 last  == CHOOSE j \in ends : \A m \in ends : m <= j
             IN  <<first, last>>

\* float(s) for a run of digits and dots: a value exists only with at most
\* one dot and at least one digit
FloatOk(s) ==
    /\ Cardinality({i \in 1..Len(s) : s[i] = "."}) <= 1
    /\ \E i \in 1..Len(s) : s[i] \in Digit

RECURSIVE DigitsVal(_)
DigitsVal(s) ==
    IF s = <<>> THEN 0
    ELSE 10 * DigitsVal(SubSeq(s, 1, Len(s) - 1)) + DigitVal(s[Len(s)])

\* number of digits after the dot
FracLen(s) ==
    LET dots == {i \in 1..Len(s) : s[i] = "."}
    IN  IF dots = {} THEN 0 ELSE Len(s) - (CHOOSE i \in dots : TRUE)

\* int(float(s) * mult) in exact decimal arithmetic; on the enumerated
\* alphabet (digits 1 and 2) and the named examples the IEEE double result
\* of the code is the same integer
IntOfFloat(s, mult) == (DigitsVal(Keep(s, Digit)) * mult) \div Pow10(FracLen(s))

----------------------------------------------------------------------------
(* Field cleaners.                                                         *)

clean_price(price_str) ==
    IF Falsy(price_str) THEN None
    ELSE LET m == FirstRun(price_str, Digit \cup {".", ","})
         IN  IF m[1] = 0 THEN None
             ELSE Remove(SubSeq(price_str, m[1], m[2]), {","})

clean_reviews(reviews_str) ==
    IF Falsy(reviews_str) THEN None
    ELSE LET s == Remove(Lower(reviews_str), {"(", ")", ","})
             m == FirstRun(s, Digit \cup {"."})
         IN  IF m[1] = 0 THEN <<"0">>
             ELSE LET g1 == SubSeq(s, m[1], m[2])
                      g2 == IF m[2] < Len(s) /\ s[m[2] + 1] = "k" THEN <<"k">> ELSE <<>>
                  IN  IF ~FloatOk(g1) THEN ValueError
                      ELSE IF g2 = <<"k">> THEN NatToStr(IntOfFloat(g1, 1000))
                      ELSE NatToStr(IntOfFloat(g1, 1))

clean_rating(rating_str) ==
    IF Falsy(rating_str) THEN None
    ELSE LET m == FirstRun(rating_str, Digit \cup {"."})
         IN  IF m[1] = 0 THEN None
             ELSE SubSeq(rating_str, m[1], m[2])

----------------------------------------------------------------------------
(* The per-card body of parse_gigs.                                        *)
(*                                                                         *)
(* A located fragment is the record of what each select_one of the body   *)
(* finds in it: None for no element, else the element's text.  href is the *)
(* title link's href attribute, container_country what the country        *)
(* selector finds inside seller_info_container, card_country what it finds *)
(* in the whole card, flag_title the title attribute of the flag icon, and *)
(* rating_element / review_count_element what the selectors find in the   *)
(* rating area when rating_review_area is TRUE and in the whole card when  *)
(* it is FALSE.                                                            *)

\* str.strip() of the whitespace the model's texts use
RECURSIVE LStrip(_)
LStrip(s) == IF s # <<>> /\ Head(s) = " " THEN LStrip(Tail(s)) ELSE s

RECURSIVE RStrip(_)
RStrip(s) ==
    IF s # <<>> /\ s[Len(s)] = " " THEN RStrip(SubSeq(s, 1, Len(s) - 1)) ELSE s

Strip(s) == RStrip(LStrip(s))

\* str.startswith(prefix)
StartsWith(s, prefix) ==
    /\ Len(s) >= Len(prefix)
    /\ SubSeq(s, 1, Len(prefix)) = prefix

\* the href kept whole: the query string is not cut off
SplitQuery_keep(s) == s

\* s.split('?')[0]
SplitQuery(s) ==
    LET qs == {i \in 1..Len(s) : s[i] = "?"}
    IN  IF qs = {} THEN s
        ELSE SubSeq(s, 1, (CHOOSE i \in qs : \A j \in qs : i <= j) - 1)

FiverrOrigin ==
    <<"h", "t", "t", "p", "s", ":", "/", "/", "w", "w", "w", ".",
      "f", "i", "v", "e", "r", "r", ".", "c", "o", "m">>

NotAvailable == <<"N", "/", "A">>

ErrorMarker == <<"E", "r", "r", "o", "r">>

ErrorTitle ==
    <<"E", "r", "r", "o", "r", " ", "p", "a", "r", "s", "i", "n", "g", " ",
      "c", "a", "r", "d">>

\* the keys of gig_info
ListingFields ==
    {"title", "seller_name", "seller_level", "seller_country", "price",
     "num_reviews", "rating", "gig_url"}

\* the placeholder appended by the except branch
ErrorRecord ==
    [title |-> ErrorTitle, seller_name |-> ErrorMarker, seller_level |-> ErrorMarker,
     price |-> ErrorMarker, num_reviews |-> ErrorMarker, rating |-> ErrorMarker,
     gig_url |-> ErrorMarker]

\* the href is neither root-relative nor absolute: logger.warning is called
UnusualUrl(c) ==
    /\ c.title_element # None
    /\ ~Falsy(c.href)
    /\ ~StartsWith(c.href, <<"/">>)
    /\ ~StartsWith(c.href, <<"h", "t", "t", "p">>)

GigUrl(c) ==
    IF c.title_element = None \/ Falsy(c.href) THEN None
    ELSE IF StartsWith(c.href, <<"/">>) THEN FiverrOrigin \o SplitQuery(c.href)
    ELSE IF StartsWith(c.href, <<"h", "t", "t", "p">>) THEN SplitQuery(c.href)
    ELSE c.href

SellerCountry(c) ==
    LET country_element ==
            IF c.seller_element # None /\ c.container_country # None
            THEN c.container_country
            ELSE c.card_country
    IN  IF country_element # None
        THEN LET country_text == Strip(country_element)
             IN  IF StartsWith(Lower(country_text), <<"f", "r", "o", "m", " ">>)
                 THEN Strip(SubSeq(country_text, 6, Len(country_text)))
                 ELSE country_text
        ELSE IF c.flag_title # None THEN Strip(c.flag_title)
        ELSE NotAvailable

\* gig_info["num_reviews"], or ValueError when clean_reviews raises
NumReviews(c) ==
    IF c.review_count_element # None THEN clean_reviews(Strip(c.review_count_element))
    ELSE IF c.rating_review_area THEN None
    ELSE <<"0">>

\* gig_info as the try block leaves it when nothing raises
GigInfo(c) ==
    [title          |-> IF c.title_element # None THEN Strip(c.title_element) ELSE None,
     seller_name    |-> IF c.seller_element # None THEN Strip(c.seller_element) ELSE None,
     seller_level   |-> IF c.seller_level_element # None
                        THEN Strip(c.seller_level_element) ELSE NotAvailable,
     seller_country |-> SellerCountry(c),
     price          |-> IF c.price_element # None
                        THEN clean_price(Strip(c.price_element)) ELSE None,
     num_reviews    |-> NumReviews(c),
     rating         |-> IF c.rating_element # None
                        THEN clean_rating(Strip(c.rating_element)) ELSE None,
     gig_url        |-> GigUrl(c)]

\* an exception escapes the try block: only clean_reviews can raise
CardRaises(c) == NumReviews(c) = ValueError

\* the record appended to gigs_data for one card
ExtractCard(c) == IF CardRaises(c) THEN ErrorRecord ELSE GigInfo(c)

NoCard == [c \in {} |-> None]

NoRecord == [r \in {} |-> None]

\* the card variables while another part of the program is modelled
IdleCard ==
    /\ kpc = "idle"
    /\ card = NoCard
    /\ rec = NoRecord
    /\ raised = FALSE
    /\ warned = FALSE

\* html_content when it is None
NoHtml == [kind |-> "None"]

\* the main variables while another part of the program is modelled
IdleMain ==
    /\ pc = "idle"
    /\ driver = "none"
    /\ page_num = 0
    /\ attempt_number = 0
    /\ html_content = NoHtml
    /\ gig_cards = <<>>
    /\ gigs_data = <<>>
    /\ card_i = 0
    /\ all_gigs_data = <<>>
    /\ pages_actually_scraped = 0
    /\ csv_calls = <<>>
    /\ json_calls = <<>>
    /\ trace = <<>>
    /\ parsed = <<>>

----------------------------------------------------------------------------
(* Raw texts handed to the cleaners.                                       *)

CleanAlphabet == {"1", "2", ".", ",", "k", "K", "(", "g"}

RECURSIVE StringsUpTo(_, _)
StringsUpTo(alphabet, n) ==
    IF n = 0 THEN {<<>>}
    ELSE LET shorter == StringsUpTo(alphabet, n - 1)
         IN  shorter \cup {Append(s, c) : s \in shorter, c \in alphabet}

ExampleTexts ==
    { <<"(", "1", ".", "2", "k", ")">>,
      <<"2", "5">>,
      <<"g", "a", "r", "b", "a", "g", "e">>,
      <<"1", ".", "2", ".", "3">>,
      <<"$", "1", "0", ".", "5", "0">>,
      <<"1", ",", "2", "0", "0">>,
      <<"4", ".", "9", " ", "s", "t", "a", "r", "s">> }

RawInputs == StringsUpTo(CleanAlphabet, MaxLen) \cup ExampleTexts

Cleaners == {"clean_price", "clean_reviews", "clean_rating"}

ApplyCleaner(f, s) ==
    CASE f = "clean_price"   -> clean_price(s)
      [] f = "clean_reviews" -> clean_reviews(s)
      [] f = "clean_rating"  -> clean_rating(s)

\* the cleaner variables while another part of the program is modelled
IdleClean ==
    /\ cpc = "idle"
    /\ fn = "none"
    /\ raw = <<>>
    /\ out = None
    /\ out2 = None

InitClean ==
    /\ cpc = "input"
    /\ fn = "none"
    /\ raw \in RawInputs
    /\ out = None
    /\ out2 = None
    /\ IdleCard
    /\ IdleMain

CallCleanPrice ==
    /\ cpc = "input"
    /\ fn' = "clean_price"
    /\ out' = clean_price(raw)
    /\ cpc' = "cleaned"
    /\ UNCHANGED <<raw, out2, cardVars, mainVars>>

CallCleanReviews ==
    /\ cpc = "input"
    /\ fn' = "clean_reviews"
    /\ out' = clean_reviews(raw)
    /\ cpc' = IF out' = ValueError THEN "raised" ELSE "cleaned"
    /\ UNCHANGED <<raw, out2, cardVars, mainVars>>

CallCleanRating ==
    /\ cpc = "input"
    /\ fn' = "clean_rating"
    /\ out' = clean_rating(raw)
    /\ cpc' = "cleaned"
    /\ UNCHANGED <<raw, out2, cardVars, mainVars>>

\* the cleaner applied to its own result
Reclean ==
    /\ cpc = "cleaned"
    /\ out2' = ApplyCleaner(fn, out)
    /\ cpc' = "recleaned"
    /\ UNCHANGED <<fn, raw, out, cardVars, mainVars>>

NextClean == CallCleanPrice \/ CallCleanReviews \/ CallCleanRating \/ Reclean

SpecClean == InitClean /\ [][NextClean]_vars

----------------------------------------------------------------------------
(* One located fragment put through the per-card body.                     *)

\* longest enumerated href of the title link
MaxUrlLen == 5

UrlAlphabet == {"/", "?", "h", "t", "p", "g"}

ExampleHrefs ==
    { <<"/", "g", "i", "g", "s", "/", "f", "o", "o", "?", "s", "o", "u", "r", "c", "e", "=", "x">>,
      <<"h", "t", "t", "p", "s", ":", "/", "/", "x", ".", "i", "o", "/", "g", "?", "s", "=", "1">>,
      <<"g", "i", "g", "s", "/", "f", "o", "o", "?", "x">> }

\* a card in which every selector finds its element
FullCard ==
    [title_element         |-> <<" ", "L", "o", "g", "o", " ">>,
     href                  |-> <<"/", "g", "?", "s">>,
     seller_element        |-> <<"a", "n", "a">>,
     container_country     |-> <<"F", "r", "o", "m", " ", "U", "S", " ">>,
     seller_level_element  |-> <<"L", "e", "v", "e", "l", " ", "2">>,
     card_country          |-> <<"U", "K">>,
     flag_title            |-> <<"D", "E">>,
     price_element         |-> <<"$", "1", "0", ".", "5", "0">>,
     rating_review_area    |-> TRUE,
     rating_element        |-> <<"4", ".", "9">>,
     review_count_element  |-> <<"(", "1", ".", "2", "k", ")">>]

\* the full card with every href of the enumeration
UrlCards ==
    {[FullCard EXCEPT !.href = h] :
        h \in {None} \cup StringsUpTo(UrlAlphabet, MaxUrlLen) \cup ExampleHrefs}

\* every combination of present and missing elements
PresenceCards ==
    {c \in [title_element         : {None, FullCard.title_element},
            href                  : {None, FullCard.href},
            seller_element        : {None, FullCard.seller_element},
            container_country     : {None, FullCard.container_country},
            seller_level_element  : {None, FullCard.seller_level_element},
            card_country          : {None, FullCard.card_country},
            flag_title            : {None, FullCard.flag_title},
            price_element         : {None, FullCard.price_element, <<",">>},
            rating_review_area    : BOOLEAN,
            rating_element        : {None, FullCard.rating_element},
            review_count_element  : {None, <<>>, FullCard.review_count_element,
                                     <<"1", ".", "2", ".", "3">>}] :
        /\ c.title_element = None => c.href = None
        /\ c.seller_element = None => c.container_country = None}

InitCard ==
    /\ kpc = "located"
    /\ card \in UrlCards \cup PresenceCards
    /\ rec = NoRecord
    /\ raised = FALSE
    /\ warned = FALSE
    /\ IdleClean
    /\ IdleMain

\* lines 149-263: the body of the loop over gig_cards for one card
ParseCard ==
    /\ kpc = "located"
    /\ rec' = ExtractCard(card)
    /\ raised' = CardRaises(card)
    /\ warned' = UnusualUrl(card)
    /\ kpc' = "extracted"
    /\ UNCHANGED <<card, cleanVars, mainVars>>

NextCard == ParseCard

SpecCard == InitCard /\ [][NextCard]_vars

----------------------------------------------------------------------------
(* main: the pagination loop, get_page_html under the tenacity retry       *)
(* decorator, parse_gigs and the saving of the collected records.          *)

MAX_PAGES_TO_SCRAPE == 2

RETRY_ATTEMPTS == 3

RETRY_WAIT_MIN_SECONDS == 2

RETRY_WAIT_MAX_SECONDS == 6

\* most cards of one page source
MaxCards == 2

\* a card in which no selector finds anything
BareCard ==
    [title_element         |-> None,
     href                  |-> None,
     seller_element        |-> None,
     container_country     |-> None,
     seller_level_element  |-> None,
     card_country          |-> None,
     flag_title            |-> None,
     price_element         |-> None,
     rating_review_area    |-> FALSE,
     rating_element        |-> None,
     review_count_element  |-> None]

\* a card whose review count makes clean_reviews raise
BrokenCard == [FullCard EXCEPT !.review_count_element = <<"1", ".", "2", ".", "3">>]

CardKinds == {FullCard, BareCard, BrokenCard}

RECURSIVE SeqsUpTo(_, _)
SeqsUpTo(S, n) ==
    IF n = 0 THEN {<<>>}
    ELSE LET shorter == SeqsUpTo(S, n - 1)
         IN  shorter \cup {Append(s, x) : s \in shorter, x \in S}

\* driver.page_source: whether it holds one of the two marker phrases, the
\* cards the primary selectors match and the cards the fallback class
\* search matches, both in document order; the fallback search only runs
\* on a page where the primary selectors match nothing
PageSources ==
    {src \in [marker : BOOLEAN, primary : SeqsUpTo(CardKinds, MaxCards),
              fallback : SeqsUpTo(CardKinds, 1)] :
        src.primary # <<>> => src.fallback = <<>>}

\* the document handed to parse_gigs
Html(src) == [kind |-> "html", primary |-> src.primary, fallback |-> src.fallback]

\* "<html><body></body></html>"
EmptyHtml == [kind |-> "html", primary |-> <<>>, fallback |-> <<>>]

RECURSIVE Pow2(_)
Pow2(k) == IF k = 0 THEN 1 ELSE 2 * Pow2(k - 1)

Max(a, b) == IF a >= b THEN a ELSE b

Min(a, b) == IF a <= b THEN a ELSE b

\* the exponential wait capped by max but not raised to min
WaitExponential_nomin(attempt) == Min(1 * Pow2(attempt - 1), RETRY_WAIT_MAX_SECONDS)

\* tenacity wait_exponential(multiplier=1, min, max) after the given attempt:
\* multiplier * 2^(attempt - 1), capped by max and raised to min
WaitExponential(attempt) ==
    Max(Max(0, RETRY_WAIT_MIN_SECONDS), Min(1 * Pow2(attempt - 1), RETRY_WAIT_MAX_SECONDS))

\* the ceiling compared with > instead of >=: one attempt too many
StopAfterAttempt_late(attempt) == attempt > RETRY_ATTEMPTS

\* tenacity stop_after_attempt(RETRY_ATTEMPTS)
StopAfterAttempt(attempt) == attempt >= RETRY_ATTEMPTS

\* gig_cards of parse_gigs: the primary selectors, else the fallback search
LocateCards(html) == IF html.primary # <<>> THEN html.primary ELSE html.fallback

\* the record of the loop body for each card a page of the model holds,
\* computed once
RecordOfKind == [c \in CardKinds |-> ExtractCard(c)]

\* the except branch logs but appends nothing: the failed card is dropped
AppendCard_drop(data, c) == IF CardRaises(c) THEN data ELSE Append(data, GigInfo(c))

\* gigs_data.append of the loop body, for the card c
AppendCard(data, c) ==
    Append(data, IF c \in CardKinds THEN RecordOfKind[c] ELSE ExtractCard(c))

\* the page's records assigned instead of appended
ExtendGigs_assign(all, gigs_on_page) == gigs_on_page

\* all_gigs_data.extend(gigs_on_page)
ExtendGigs(all, gigs_on_page) == all \o gigs_on_page

\* the marker phrases are not looked for: the page source is returned
PageResult_nocheck(src) == Html(src)

\* lines 85-94: the minimal document for a page source holding one of the
\* two marker phrases, else the page source
PageResult(src) == IF src.marker THEN EmptyHtml ELSE Html(src)

\* no page source was returned by the attempt
NoSource == [marker |-> FALSE, primary |-> <<>>, fallback |-> <<>>]

\* history: one call of the decorated function body, its outcome and, for
\* a returned content page, the page source it read
AttemptEvent(p, o, src) == [page |-> p, ev |-> "attempt", outcome |-> o, source |-> src]

\* history: one backoff sleep of the retry decorator

WaitEvent(p, w) == [page |-> p, ev |-> "wait", seconds |-> w]

Init ==
    /\ pc = "setup"
    /\ driver = "none"
    /\ page_num = 0
    /\ attempt_number = 0
    /\ html_content = NoHtml
    /\ gig_cards = <<>>
    /\ gigs_data = <<>>
    /\ card_i = 0
    /\ all_gigs_data = <<>>
    /\ pages_actually_scraped = 0
    /\ csv_calls = <<>>
    /\ json_calls = <<>>
    /\ trace = <<>>
    /\ parsed = <<>>
    /\ IdleClean
    /\ IdleCard

\* lines 423-428: ensure_output_directory_exists raises and main returns
SetupFails ==
    /\ pc = "setup"
    /\ pc' = "done"
    /\ UNCHANGED <<driver, page_num, attempt_number, html_content, gig_cards, gigs_data,
                   card_i, all_gigs_data, pages_actually_scraped, csv_calls, json_calls,
                   trace, parsed, cleanVars, cardVars>>

\* lines 423-457: the driver is created and the loop starts with page 1
StartDriver ==
    /\ pc = "setup"
    /\ driver' = "open"
    /\ page_num' = 1
    /\ attempt_number' = 0
    /\ pc' = "fetch"
    /\ UNCHANGED <<html_content, gig_cards, gigs_data, card_i, all_gigs_data,
                   pages_actually_scraped, csv_calls, json_calls, trace, parsed,
                   cleanVars, cardVars>>

\* lines 452-453 raise: the outer handlers log, finally finds driver None
StartDriverFails ==
    /\ pc = "setup"
    /\ pc' = "finally"
    /\ UNCHANGED <<driver, page_num, attempt_number, html_content, gig_cards, gigs_data,
                   card_i, all_gigs_data, pages_actually_scraped, csv_calls, json_calls,
                   trace, parsed, cleanVars, cardVars>>

\* one attempt of get_page_html that returns: the page source is read and
\* returned, or replaced by the minimal document when it holds a marker
FetchReturns ==
    /\ pc = "fetch"
    /\ \E src \in PageSources :
        /\ html_content' = PageResult(src)
        /\ trace' = Append(trace, IF src.marker
                                   THEN AttemptEvent(page_num, "empty", NoSource)
                                   ELSE AttemptEvent(page_num, "content", src))
    /\ attempt_number' = attempt_number + 1
    /\ pc' = "dispatch"
    /\ UNCHANGED <<driver, page_num, gig_cards, gigs_data, card_i, all_gigs_data,
                   pages_actually_scraped, csv_calls, json_calls, parsed,
                   cleanVars, cardVars>>

\* the other error treated like a transient one: re-raised and retried
FetchOtherError_retry ==
    /\ pc = "fetch"
    /\ attempt_number' = attempt_number + 1
    /\ trace' = Append(trace, AttemptEvent(page_num, "other", NoSource))
    /\ IF attempt_number' >= RETRY_ATTEMPTS
       THEN /\ html_content' = NoHtml
            /\ pc' = "dispatch"
       ELSE /\ pc' = "backoff"
            /\ UNCHANGED html_content
    /\ UNCHANGED <<driver, page_num, gig_cards, gigs_data, card_i, all_gigs_data,
                   pages_actually_scraped, csv_calls, json_calls, parsed,
                   cleanVars, cardVars>>

\* one attempt that raises something else than WebDriverException or
\* TimeoutException: lines 99-102 return None, tenacity does not retry
FetchOtherError ==
    /\ pc = "fetch"
    /\ html_content' = NoHtml
    /\ trace' = Append(trace, AttemptEvent(page_num, "other", NoSource))
    /\ attempt_number' = attempt_number + 1
    /\ pc' = "dispatch"
    /\ UNCHANGED <<driver, page_num, gig_cards, gigs_data, card_i, all_gigs_data,
                   pages_actually_scraped, csv_calls, json_calls, parsed,
                   cleanVars, cardVars>>

\* one attempt that raises WebDriverException or TimeoutException: lines
\* 95-98 re-raise; tenacity stops at the ceiling and raises RetryError,
\* which lines 462-465 of main turn into html_content = None, else it goes
\* on to the backoff sleep
FetchTransient ==
    /\ pc = "fetch"
    /\ attempt_number' = attempt_number + 1
    /\ trace' = Append(trace, AttemptEvent(page_num, "transient", NoSource))
    /\ IF StopAfterAttempt(attempt_number')
       THEN /\ html_content' = NoHtml
            /\ pc' = "dispatch"
       ELSE /\ pc' = "backoff"
            /\ UNCHANGED html_content
    /\ UNCHANGED <<driver, page_num, gig_cards, gigs_data, card_i, all_gigs_data,
                   pages_actually_scraped, csv_calls, json_calls, parsed,
                   cleanVars, cardVars>>

\* tenacity sleeps wait(retry_state) and starts the next attempt
Backoff ==
    /\ pc = "backoff"
    /\ trace' = Append(trace, WaitEvent(page_num, WaitExponential(attempt_number)))
    /\ pc' = "fetch"
    /\ UNCHANGED <<driver, page_num, attempt_number, html_content, gig_cards, gigs_data,
                   card_i, all_gigs_data, pages_actually_scraped, csv_calls, json_calls,
                   parsed, cleanVars, cardVars>>

\* lines 481-485: html_content is None, pagination stops
FetchFailed ==
    /\ pc = "dispatch"
    /\ html_content = NoHtml
    /\ pages_actually_scraped' = page_num
    /\ pc' = "save"
    /\ UNCHANGED <<driver, page_num, attempt_number, html_content, gig_cards, gigs_data,
                   card_i, all_gigs_data, csv_calls, json_calls, trace, parsed,
                   cleanVars, cardVars>>

\* lines 467-469 and 116-145: parse_gigs is called and locates the cards
ParseGigsLocate ==
    /\ pc = "dispatch"
    /\ html_content # NoHtml
    /\ parsed' = Append(parsed, page_num)
    /\ gig_cards' = LocateCards(html_content)
    /\ gigs_data' = <<>>
    /\ card_i' = 1
    /\ pc' = "parse"
    /\ UNCHANGED <<driver, page_num, attempt_number, html_content, all_gigs_data,
                   pages_actually_scraped, csv_calls, json_calls, trace,
                   cleanVars, cardVars>>

\* lines 147-263: the loop body for the next card
ParseGigsCard ==
    /\ pc = "parse"
    /\ card_i <= Len(gig_cards)
    /\ gigs_data' = AppendCard(gigs_data, gig_cards[card_i])
    /\ card_i' = card_i + 1
    /\ UNCHANGED <<pc, driver, page_num, attempt_number, html_content, gig_cards,
                   all_gigs_data, pages_actually_scraped, csv_calls, json_calls,
                   trace, parsed, cleanVars, cardVars>>

\* a page without records ends the loop even when it is the first page
BreakOnEmpty_any(p) == p >= 1

\* line 477: a page without records ends the loop unless it is page 1
BreakOnEmpty(p) == p > 1

\* the loop of main after the page: the next page, or the saving phase
NextPage ==
    IF page_num < MAX_PAGES_TO_SCRAPE
    THEN /\ page_num' = page_num + 1
         /\ attempt_number' = 0
         /\ pc' = "fetch"
    ELSE /\ pc' = "save"
         /\ UNCHANGED <<page_num, attempt_number>>

\* lines 145/270 and 470-492: parse_gigs returns gigs_on_page
ParseGigsReturn ==
    /\ pc = "parse"
    /\ card_i > Len(gig_cards)
    /\ pages_actually_scraped' = page_num
    /\ IF gigs_data # <<>>
       THEN /\ all_gigs_data' = ExtendGigs(all_gigs_data, gigs_data)
            /\ NextPage
       ELSE /\ UNCHANGED all_gigs_data
            /\ IF BreakOnEmpty(page_num)
               THEN /\ pc' = "save"
                    /\ UNCHANGED <<page_num, attempt_number>>
               ELSE NextPage
    /\ UNCHANGED <<driver, html_content, gig_cards, gigs_data, card_i, csv_calls,
                   json_calls, trace, parsed, cleanVars, cardVars>>

\* lines 497-501: save_to_csv and save_to_json get all_gigs_data
SaveData ==
    /\ pc = "save"
    /\ all_gigs_data # <<>>
    /\ csv_calls' = Append(csv_calls, all_gigs_data)
    /\ json_calls' = Append(json_calls, all_gigs_data)
    /\ pc' = "finally"
    /\ UNCHANGED <<driver, page_num, attempt_number, html_content, gig_cards, gigs_data,
                   card_i, all_gigs_data, pages_actually_scraped, trace, parsed,
                   cleanVars, cardVars>>

\* lines 502-503: nothing was collected, nothing is saved
SkipSave ==
    /\ pc = "save"
    /\ all_gigs_data = <<>>
    /\ pc' = "finally"
    /\ UNCHANGED <<driver, page_num, attempt_number, html_content, gig_cards, gigs_data,
                   card_i, all_gigs_data, pages_actually_scraped, csv_calls, json_calls,
                   trace, parsed, cleanVars, cardVars>>

\* the driver is left as it is: quit() is never called
QuitDriver_leak(d) == d

\* lines 513-515: if driver: driver.quit()
QuitDriver(d) == IF d = "open" THEN "closed" ELSE d

\* lines 511-517: driver.quit() when a driver was created
Finally ==
    /\ pc = "finally"
    /\ driver' = QuitDriver(driver)
    /\ pc' = "done"
    /\ UNCHANGED <<page_num, attempt_number, html_content, gig_cards, gigs_data,
                   card_i, all_gigs_data, pages_actually_scraped, csv_calls, json_calls,
                   trace, parsed, cleanVars, cardVars>>

Next ==
    \/ SetupFails
    \/ StartDriver
    \/ StartDriverFails
    \/ FetchReturns
    \/ FetchOtherError
    \/ FetchTransient
    \/ Backoff
    \/ FetchFailed
    \/ ParseGigsLocate
    \/ ParseGigsCard
    \/ ParseGigsReturn
    \/ SaveData
    \/ SkipSave
    \/ Finally

Spec == Init /\ [][Next]_vars

\* main is one sequential thread: its fetches return or raise and its
\* sleeps end, so a step that can be taken is taken
FairSpec == Spec /\ WF_vars(Next)

----------------------------------------------------------------------------
(* Properties of the fetch, parse and save pipeline (Spec).                *)

Pages == 1..MAX_PAGES_TO_SCRAPE

\* the fetch attempts made for page p, in order
AttemptsOf(p) == SelectSeq(trace, LAMBDA e : e.page = p /\ e.ev = "attempt")

\* the backoff sleeps taken for page p, in order
WaitsOf(p) == SelectSeq(trace, LAMBDA e : e.page = p /\ e.ev = "wait")

OutcomesOf(p) == [i \in 1..Len(AttemptsOf(p)) |-> AttemptsOf(p)[i].outcome]

TwoTransientThenContent == <<"transient", "transient", "content">>

\* C1: a request whose first two attempts are transient failures and whose
\* third attempt succeeds makes exactly 3 attempts, hands the third
\* attempt's content to main, and sleeps two backoff waits that do not
\* decrease and lie within [RETRY_WAIT_MIN_SECONDS, RETRY_WAIT_MAX_SECONDS].
C1_RetryThenSuccess ==
    \A p \in Pages :
        (/\ Len(AttemptsOf(p)) >= 3
         /\ SubSeq(OutcomesOf(p), 1, 3) = TwoTransientThenContent)
        => /\ Len(AttemptsOf(p)) = 3
           /\ Len(WaitsOf(p)) = 2
           /\ WaitsOf(p)[1].seconds <= WaitsOf(p)[2].seconds
           /\ \A i \in 1..2 :
                /\ WaitsOf(p)[i].seconds >= RETRY_WAIT_MIN_SECONDS
                /\ WaitsOf(p)[i].seconds <= RETRY_WAIT_MAX_SECONDS
           /\ (pc = "dispatch" /\ page_num = p)
                => html_content = Html(AttemptsOf(p)[3].source)

C1_Witness ==
    /\ pc = "dispatch"
    /\ page_num = 1
    /\ OutcomesOf(1) = TwoTransientThenContent
    /\ html_content # NoHtml
    /\ html_content.primary = <<FullCard>>

\* C10: no page gets more than RETRY_ATTEMPTS fetch attempts; every
\* re-attempt follows a transient failure and is directly preceded by a
\* backoff sleep for the same page; and when all RETRY_ATTEMPTS attempts
\* are transient failures the request ends with html_content None, after
\* which main stops paginating: no later page is ever fetched.
C10_RetryCeiling ==
    /\ \A p \in Pages : Len(AttemptsOf(p)) <= RETRY_ATTEMPTS
    /\ \A i \in 1..Len(trace) :
        (/\ trace[i].ev = "attempt"
         /\ \E j \in 1..(i - 1) : trace[j].ev = "attempt" /\ trace[j].page = trace[i].page)
        => /\ trace[i - 1].ev = "wait"
           /\ trace[i - 1].page = trace[i].page
           /\ trace[i - 2].ev = "attempt"
           /\ trace[i - 2].page = trace[i].page
           /\ trace[i - 2].outcome = "transient"
    /\ \A p \in Pages :
        (/\ Len(AttemptsOf(p)) = RETRY_ATTEMPTS
         /\ \A i \in 1..RETRY_ATTEMPTS : OutcomesOf(p)[i] = "transient")
        => /\ page_num = p
           /\ pc \in {"dispatch", "save", "finally", "done"}
           /\ html_content = NoHtml
           /\ \A i \in 1..Len(trace) : trace[i].page <= p

C10_Witness ==
    /\ pc = "done"
    /\ page_num = 1
    /\ OutcomesOf(1) = <<"transient", "transient", "transient">>
    /\ Len(WaitsOf(1)) = 2
    /\ AttemptsOf(2) = <<>>

\* C11: an attempt that raises an error other than WebDriverException or
\* TimeoutException ends its request at once: it is the last event of the
\* history (no backoff sleep and no further attempt follow, whatever the
\* attempt's number), html_content is None and main stops paginating; and
\* every attempt that is followed by another attempt for the same page was
\* a transient failure.
C11_OtherErrorNotRetried ==
    \A i \in 1..Len(trace) :
        trace[i].ev = "attempt" =>
            /\ trace[i].outcome = "other" =>
                /\ i = Len(trace)
                /\ page_num = trace[i].page
                /\ html_content = NoHtml
                /\ pc \in {"dispatch", "save", "finally", "done"}
            /\ (\E j \in (i + 1)..Len(trace) :
                    trace[j].ev = "attempt" /\ trace[j].page = trace[i].page)
                => trace[i].outcome = "transient"

\* the error comes at the second attempt, with one attempt still allowed
C11_Witness ==
    /\ pc = "done"
    /\ OutcomesOf(1) = <<"transient", "other">>
    /\ Len(WaitsOf(1)) = 1
    /\ AttemptsOf(2) = <<>>
    /\ attempt_number < RETRY_ATTEMPTS

\* the outcome of the last fetch attempt made for page p
LastOutcome(p) == OutcomesOf(p)[Len(OutcomesOf(p))]

ParsedPages == {parsed[i] : i \in 1..Len(parsed)}

\* C12 as stated: parse_gigs is called for a page only when the fetch
\* returned content; it is not called for a page whose body held a marker
\* phrase nor for a page whose fetch failed.
C12_ParsedOnlyOnContent ==
    \A i \in 1..Len(parsed) : LastOutcome(parsed[i]) = "content"

\* C12 amended: parse_gigs is called, once, for exactly the pages for which
\* get_page_html returned a document, which is the page source or the
\* minimal document substituted for a page holding a marker phrase; on the
\* minimal document it locates no card and yields no record; it is not
\* called for a page whose fetch failed.
C12_ParsedOnDocument ==
    /\ \A i \in 1..Len(parsed) : LastOutcome(parsed[i]) \in {"content", "empty"}
    /\ \A i \in 1..Len(parsed) : \A j \in 1..Len(parsed) : i < j => parsed[i] < parsed[j]
    /\ \A p \in Pages :
        (/\ AttemptsOf(p) # <<>>
         /\ LastOutcome(p) \in {"content", "empty"}
         /\ page_num > p \/ pc \in {"parse", "save", "finally", "done"})
        => p \in ParsedPages
    /\ (pc = "parse" /\ LastOutcome(page_num) = "empty")
        => /\ html_content = EmptyHtml
           /\ gig_cards = <<>>
           /\ gigs_data = <<>>

C12_Witness ==
    /\ pc = "parse"
    /\ page_num = 1
    /\ OutcomesOf(1) = <<"empty">>
    /\ parsed = <<1>>
    /\ gig_cards = <<>>

\* what the loop body has to append for the card c
ExpectedRecord(c) == IF CardRaises(c) THEN ErrorRecord ELSE GigInfo(c)

\* C3: parse_gigs yields one record per located card in document order:
\* during the loop the records so far are those of the first cards, and
\* once the loop is over gigs_data has the length of gig_cards, its i-th
\* record is the one of the i-th card, and a card whose extraction raises
\* has the placeholder record at its own position.
C3_OneRecordPerCard ==
    /\ pc = "parse" => /\ gig_cards = LocateCards(html_content)
                       /\ Len(gigs_data) = card_i - 1
    /\ Len(gigs_data) <= Len(gig_cards)
    /\ \A i \in 1..Len(gigs_data) : gigs_data[i] = ExpectedRecord(gig_cards[i])
    /\ card_i > Len(gig_cards) => Len(gigs_data) = Len(gig_cards)

C3_Witness ==
    /\ pc = "parse"
    /\ card_i > Len(gig_cards)
    /\ gig_cards = <<BrokenCard, FullCard>>
    /\ gigs_data = <<ErrorRecord, GigInfo(FullCard)>>

\* the records of page p: those of the cards located in the page source of
\* its last attempt when that attempt returned content, else none
RECURSIVE RecordsOfCards(_)
RecordsOfCards(cards) ==
    IF cards = <<>> THEN <<>>
    ELSE <<ExpectedRecord(Head(cards))>> \o RecordsOfCards(Tail(cards))

RecordsOfPage(p) ==
    LET a == AttemptsOf(p)
    IN  IF a # <<>> /\ a[Len(a)].outcome = "content"
        THEN RecordsOfCards(LocateCards(Html(a[Len(a)].source)))
        ELSE <<>>

RECURSIVE RecordsUpTo(_)
RecordsUpTo(p) == IF p = 0 THEN <<>> ELSE RecordsUpTo(p - 1) \o RecordsOfPage(p)

\* C5: at the end of a run save_to_csv and save_to_json have each been
\* called exactly once, with all records of all fetched pages in page
\* order, when there is at least one record, and not at all when there is
\* none; neither is ever called twice.  This covers runs that stop early
\* on an empty page 2 or on a page 2 whose fetch failed.
C5_SaveOnceWithAll ==
    /\ Len(csv_calls) <= 1
    /\ Len(json_calls) <= 1
    /\ pc = "done" =>
        IF RecordsUpTo(MAX_PAGES_TO_SCRAPE) # <<>>
        THEN /\ csv_calls = <<RecordsUpTo(MAX_PAGES_TO_SCRAPE)>>
             /\ json_calls = <<RecordsUpTo(MAX_PAGES_TO_SCRAPE)>>
        ELSE /\ csv_calls = <<>>
             /\ json_calls = <<>>

\* page 1 gave records, page 2 was fetched and had no card: page 1 is saved
C5_Witness ==
    /\ pc = "done"
    /\ OutcomesOf(1) = <<"content">>
    /\ OutcomesOf(2) = <<"content">>
    /\ RecordsOfPage(2) = <<>>
    /\ pages_actually_scraped = 2
    /\ csv_calls = <<RecordsOfPage(1)>>
    /\ Len(RecordsOfPage(1)) = 2

\* the fetch of page p ended without a document: another error, or a
\* transient failure at the last allowed attempt
FatalFetch(p) ==
    \/ LastOutcome(p) = "other"
    \/ LastOutcome(p) = "transient" /\ Len(AttemptsOf(p)) = RETRY_ATTEMPTS

AllAttempts == SelectSeq(trace, LAMBDA e : e.ev = "attempt")

\* what holds all along a run: at most MAX_PAGES_TO_SCRAPE pages and
\* MAX_PAGES_TO_SCRAPE * RETRY_ATTEMPTS attempts, no page fetched again
\* after a later one, and no open driver once main has returned
RunBounded ==
    /\ page_num <= MAX_PAGES_TO_SCRAPE
    /\ \A i \in 1..Len(trace) : trace[i].page \in Pages
    /\ Len(AllAttempts) <= MAX_PAGES_TO_SCRAPE * RETRY_ATTEMPTS
    /\ \A i \in 1..Len(trace) : \A j \in i..Len(trace) : trace[i].page <= trace[j].page
    /\ pc = "done" => driver # "open"
    /\ trace # <<>> => driver # "none"

\* C15: whatever the fetch outcomes are, main returns; until then it has
\* fetched at most MAX_PAGES_TO_SCRAPE pages with at most
\* MAX_PAGES_TO_SCRAPE * RETRY_ATTEMPTS attempts in all, never a page
\* again after a later one, and a driver that was created is closed when
\* main has returned.
C15_RunTerminates == <>(pc = "done") /\ []RunBounded

\* the longest run: every page takes all its attempts, the driver is closed
C15_Witness ==
    /\ pc = "done"
    /\ driver = "closed"
    /\ Len(AllAttempts) = MAX_PAGES_TO_SCRAPE * RETRY_ATTEMPTS
    /\ OutcomesOf(MAX_PAGES_TO_SCRAPE) = <<"transient", "transient", "transient">>

----------------------------------------------------------------------------
(* Properties of the per-card body (SpecCard).                             *)

\* C2: the record of every located fragment is the placeholder record or
\* has seller_country and num_reviews present and not None.
C2_FieldsDefined ==
    kpc = "extracted" =>
        \/ rec = ErrorRecord
        \/ /\ "seller_country" \in DOMAIN rec
           /\ rec.seller_country # None
           /\ "num_reviews" \in DOMAIN rec
           /\ rec.num_reviews # None

\* C4: the record substituted when the extraction of a fragment raises has
\* all the fields of a normal record and the same marker string in each.
C4_SentinelMarkerInEveryField ==
    (kpc = "extracted" /\ raised) =>
        /\ DOMAIN rec = ListingFields
        /\ \A f \in DOMAIN rec : rec[f] = ErrorMarker

\* C13: a failure while extracting one field, an exception raised by a
\* field cleaner included, does not make the record the placeholder record
\* and leaves every other field as extracted: whatever the review count
\* text is, the record has all fields and every field but num_reviews has
\* the value the loop body extracts for it.
C13_FieldFaultIsolated ==
    kpc = "extracted" =>
        /\ ~raised
        /\ rec # ErrorRecord
        /\ \A f \in ListingFields \ {"num_reviews"} :
            /\ f \in DOMAIN rec
            /\ rec[f] = GigInfo(card)[f]

\* u is h with everything from its first "?" removed
QueryStripped(h, u) ==
    /\ Len(u) <= Len(h)
    /\ \A i \in 1..Len(u) : u[i] = h[i] /\ u[i] # "?"
    /\ Len(u) = Len(h) \/ h[Len(u) + 1] = "?"

ExampleRelativeHref ==
    <<"/", "g", "i", "g", "s", "/", "f", "o", "o", "?", "s", "o", "u", "r", "c", "e", "=", "x">>

ExampleRelativeUrl ==
    <<"h", "t", "t", "p", "s", ":", "/", "/", "w", "w", "w", ".", "f", "i", "v", "e", "r", "r",
      ".", "c", "o", "m", "/", "g", "i", "g", "s", "/", "f", "o", "o">>

\* C9: a href starting with "/" is stored as the site origin followed by
\* the href cut at its first "?", a href starting with "http" as the href
\* cut at its first "?", both without a "?" and without a warning; any
\* other non-empty href is stored unchanged and a warning is logged.
C9_UrlNormalized ==
    (kpc = "extracted" /\ ~raised /\ card.title_element # None /\ ~Falsy(card.href)) =>
        LET h == card.href
            u == rec.gig_url
            n == Len(FiverrOrigin)
        IN  /\ IF h[1] = "/"
               THEN /\ Len(u) >= n
                    /\ SubSeq(u, 1, n) = FiverrOrigin
                    /\ QueryStripped(h, SubSeq(u, n + 1, Len(u)))
                    /\ \A i \in 1..Len(u) : u[i] # "?"
                    /\ ~warned
               ELSE IF Len(h) >= 4 /\ h[1] = "h" /\ h[2] = "t" /\ h[3] = "t" /\ h[4] = "p"
               THEN /\ QueryStripped(h, u)
                    /\ \A i \in 1..Len(u) : u[i] # "?"
                    /\ ~warned
               ELSE /\ u = h
                    /\ warned
            /\ h = ExampleRelativeHref => u = ExampleRelativeUrl

C9_Witness ==
    /\ kpc = "extracted"
    /\ card.href = ExampleRelativeHref
    /\ rec.gig_url = ExampleRelativeUrl
    /\ ~warned

----------------------------------------------------------------------------
(* Properties of the field cleaners (SpecClean).                           *)

IsDigits(s) == s # <<>> /\ \A i \in 1..Len(s) : s[i] \in Digit

HasDigit(s) == \E i \in 1..Len(s) : s[i] \in Digit

\* C6: clean_reviews returns a digit string for every input, "0" when the
\* input holds no number (the empty string included); it never returns
\* None and never raises.
C6_ReviewsAlwaysNumeric ==
    fn = "clean_reviews" =>
        /\ cpc # "raised"
        /\ out # None
        /\ IsDigits(out)
        /\ ~(\E i \in 1..Len(raw) : raw[i] \in Digit \cup {"."}) => out = <<"0">>
        /\ raw = <<"(", "1", ".", "2", "k", ")">> => out = <<"1", "2", "0", "0">>
        /\ raw = <<"2", "5">> => out = <<"2", "5">>

\* C7: each cleaner is idempotent: cleaning its own result again gives the
\* same result, also when that result is None or the empty string.
C7_CleanersIdempotent == cpc = "recleaned" => out2 = out

\* C8: clean_price returns None for the empty string and for every input
\* without a digit, and any value it returns is a non-empty string holding
\* a digit and no comma ("$10.50" gives "10.50", "1,200" gives "1200").
C8_PriceNumericOrNone ==
    fn = "clean_price" =>
        /\ ~HasDigit(raw) => out = None
        /\ out # None => /\ out # <<>>
                         /\ HasDigit(out)
                         /\ \A i \in 1..Len(out) : out[i] # ","
        /\ raw = <<"$", "1", "0", ".", "5", "0">> => out = <<"1", "0", ".", "5", "0">>
        /\ raw = <<"1", ",", "2", "0", "0">> => out = <<"1", "2", "0", "0">>

====
